---------------------------- MODULE Spec2Model ----------------------------
(***************************************************************************)
(* State-machine model of the local-sqs-rs queue engine (src/src/queue.rs, *)
(* src/src/state.rs): the DashMap of queues, the handlers create_queue,    *)
(* get_queue_url, list_queues, get_queue_attributes, delete_queue,         *)
(* purge_queue, send_message, delete_message and receive_message.          *)
(*                                                                         *)
(* Every handler except create_queue touches the map through one           *)
(* get/get_mut/remove guard, so its body is one atomic step.  create_queue *)
(* drops its read guard before it inserts, so it is two steps.             *)
(* receive_message holds the guard for one pass of its loop and sleeps     *)
(* without it, so each pass is one step.                                   *)
(*                                                                         *)
(* Time is the wall clock Utc::now(), in whole seconds.  Uuid::new_v4() is *)
(* a fresh value taken from a counter.  Message payload fields (body,      *)
(* md5, attributes) are written once by Message::new and read by no        *)
(* handler; the message id stands for them.                                *)
(*                                                                         *)
(* Clock readings inside one handler: receive_message reads the clock at   *)
(* the top of a pass (now) and again for every message it leases, so a     *)
(* pass may see the clock move; start_time and the first pass's now are    *)
(* adjacent readings with no access to the map in between and are taken as *)
(* one, as are the two readings of Message::new and the reading of the     *)
(* elapsed-time test that follows a pass.                                  *)
(***************************************************************************)
EXTENDS Integers, Sequences, FiniteSets, TLC

\* ------------------------------------------------------------------ bounds
MaxTime == 1
MaxSends == 2
MaxLeases == 2

\* Option::None for Option<String> receipt handles (handles are 1, 2, ...)
None == 0
\* Option::None for Option<u32> request fields
NoU32 == -1

DEFAULT_VISIBILITY_TIMEOUT == 30

\* ------------------------------------------------------------------ inputs
QueueNames == { <<"a">>, <<"a", "b">> }
Prefixes == { <<>>, <<"a">>, <<"a", "b">> }
AttrValues == { <<>>, <<"1">>, <<"x">> }
AttrSets == [VisibilityTimeout : AttrValues]
Delays == {NoU32, 0, 1}
\* Option::None for attribute_names, and the name lists a request may carry
NoNames == {"*"}
AttributeNames == { NoNames, {"VisibilityTimeout"}, {"DelaySeconds"} }
Receivers == {"r1", "r2"}
Creators == {"c1", "c2"}

(***************************************************************************)
(* Program state: queues (the DashMap, url -> Queue), clock (Utc::now()),  *)
(* nextId and nextHandle (the next Uuid::new_v4() for a message id and for *)
(* a receipt handle), recv and crt (where each receive_message and         *)
(* create_queue call stands), lastOp (the response of the last step).      *)
(* Bookkeeping for the properties: ledger (for each stored message, the    *)
(* delay it was sent with and the leases granted on it), gone (for each    *)
(* removed message, the operation that removed it and the handle it held). *)
(***************************************************************************)
VARIABLES queues, clock, nextId, nextHandle, recv, crt, lastOp, ledger, gone

vars == <<queues, clock, nextId, nextHandle, recv, crt, lastOp, ledger, gone>>

\* ------------------------------------------------------------- pure helpers
Digits == <<"0", "1", "2", "3", "4", "5", "6", "7", "8", "9">>

IsDigit(c) == \E d \in 1..10 : Digits[d] = c

DigitValue(c) == (CHOOSE d \in 1..10 : Digits[d] = c) - 1

RECURSIVE DecimalValue(_)
DecimalValue(s) ==
    IF Len(s) = 0 THEN 0
    ELSE 10 * DecimalValue(SubSeq(s, 1, Len(s) - 1)) + DigitValue(s[Len(s)])

\* str::parse::<u32>().ok(): NoU32 when the text is no u32.  The attribute
\* texts of the inputs are short, so the overflow case of parse does not arise.
ParseU32(s) ==
    LET body == IF Len(s) > 0 /\ s[1] = "+" THEN Tail(s) ELSE s
    IN  IF Len(body) = 0 \/ \E i \in 1..Len(body) : ~IsDigit(body[i]) THEN NoU32
        ELSE DecimalValue(body)

\* Option::unwrap_or
UnwrapOr(opt, default) == IF opt = NoU32 THEN default ELSE opt

\* HashMap::get on the attributes map: the empty text stands for a missing key
AttrGet(attributes) ==
    IF attributes.VisibilityTimeout = <<>> THEN NoU32
    ELSE ParseU32(attributes.VisibilityTimeout)

QueueUrl(name) == <<"http://localhost:9324/">> \o name

StartsWith(s, p) == Len(p) <= Len(s) /\ SubSeq(s, 1, Len(p)) = p

QueueUrls == { QueueUrl(n) : n \in QueueNames }

Ids(msgs) == { msgs[i].id : i \in 1..Len(msgs) }

Handles(msgs) == { msgs[i].receipt_handle : i \in 1..Len(msgs) } \ {None}

\* ----------------------------------------------------------------- messages
\* mutants of NewMessage: the delay is dropped; the message starts out hidden
\* for the default visibility timeout
NewMessageNoDelay(id, now, delay_seconds) ==
    [ id |-> id, receipt_handle |-> None, visible_from |-> now,
      sent_timestamp |-> now, receive_count |-> 0 ]

NewMessageHidden(id, now, delay_seconds) ==
    [ id |-> id, receipt_handle |-> None,
      visible_from |-> now + DEFAULT_VISIBILITY_TIMEOUT,
      sent_timestamp |-> now, receive_count |-> 0 ]

NewMessage(id, now, delay_seconds) ==
    [ id |-> id,
      receipt_handle |-> None,
      visible_from |-> IF delay_seconds # NoU32 THEN now + delay_seconds ELSE now,
      sent_timestamp |-> now,
      receive_count |-> 0 ]

\* mutants of LeaseExpired: an off-by-one comparison; no comparison at all
LeaseExpiredStrictly(m, now) == m.receipt_handle # None /\ now > m.visible_from

LeaseExpiredAnyTime(m, now) == m.receipt_handle # None

LeaseExpired(m, now) == m.receipt_handle # None /\ now >= m.visible_from

\* mutant of IsVisible: visibility decided from the send time alone
IsVisibleBySendTime(m, now) == now >= m.sent_timestamp

IsVisible(m, now) == m.receipt_handle = None /\ now >= m.visible_from

\* mutant of Reclaim: run-out leases keep their handles
ReclaimNone(msgs, now) == msgs

\* the first loop of a receive pass
Reclaim(msgs, now) ==
    [ i \in 1..Len(msgs) |->
        IF LeaseExpired(msgs[i], now)
        THEN [msgs[i] EXCEPT !.receipt_handle = None]
        ELSE msgs[i] ]

Lease(m, reading, visibility_timeout, handle) ==
    [m EXCEPT !.visible_from = reading + visibility_timeout,
              !.receipt_handle = handle]

Snapshot(m, handle) == [m EXCEPT !.receipt_handle = handle]

\* mutant of Full: an off-by-one comparison
FullLate(out, max) == Len(out) > max

\* the test that ends the second loop (line 314)
Full(out, max) == Len(out) >= max

\* the second loop of a receive pass, from position i on; reads[i] is the
\* clock reading Utc::now() taken when position i is leased
RECURSIVE Scan(_, _, _, _, _, _, _, _)
Scan(msgs, i, out, now, max, visibility_timeout, reads, firstHandle) ==
    IF i > Len(msgs) \/ Full(out, max)
    THEN [messages |-> msgs, returned |-> out]
    ELSE IF IsVisible(msgs[i], now)
         THEN LET handle == firstHandle + Len(out)
              IN  Scan([msgs EXCEPT ![i] = Lease(msgs[i], reads[i], visibility_timeout, handle)],
                       i + 1, Append(out, Snapshot(msgs[i], handle)),
                       now, max, visibility_timeout, reads, firstHandle)
         ELSE Scan(msgs, i + 1, out, now, max, visibility_timeout, reads, firstHandle)

\* mutant of EffectiveTimeout: the queue's attribute wins over the request
EffectiveTimeoutQueueFirst(request, queue) ==
    UnwrapOr(AttrGet(queue.attributes),
             UnwrapOr(request.visibility_timeout, DEFAULT_VISIBILITY_TIMEOUT))

EffectiveTimeout(request, queue) ==
    UnwrapOr(request.visibility_timeout,
             UnwrapOr(AttrGet(queue.attributes), DEFAULT_VISIBILITY_TIMEOUT))

ReceivePass(queue, request, now, reads, firstHandle) ==
    Scan(Reclaim(queue.messages, now), 1, <<>>, now,
         request.max_number_of_messages, EffectiveTimeout(request, queue),
         reads, firstHandle)

\* mutant of Retain: the closure's answer inverted
RetainMatching(msgs, receipt_handle) ==
    SelectSeq(msgs, LAMBDA m : m.receipt_handle = receipt_handle)

\* VecDeque::retain of delete_message
Retain(msgs, receipt_handle) ==
    SelectSeq(msgs, LAMBDA m : m.receipt_handle # receipt_handle)

\* mutants of MessageFound: the flag starts out true; the flag is never set
MessageFoundAlways(msgs, receipt_handle) == TRUE

MessageFoundNever(msgs, receipt_handle) == FALSE

MessageFound(msgs, receipt_handle) ==
    \E i \in 1..Len(msgs) : msgs[i].receipt_handle = receipt_handle

\* mutant of Cleared: only the messages nobody holds are dropped
ClearedUnleased(msgs) == SelectSeq(msgs, LAMBDA m : m.receipt_handle # None)

Cleared(msgs) == <<>>

\* mutant of PushBack: the message goes to the head of the queue
PushFront(msgs, m) == <<m>> \o msgs

\* VecDeque::push_back of send_message
PushBack(msgs, m) == Append(msgs, m)

StoredUnder(msgs, receipt_handle) ==
    msgs[CHOOSE i \in 1..Len(msgs) : msgs[i].receipt_handle = receipt_handle]

\* ------------------------------------------------------------------- store
Present(url) == url \in DOMAIN queues

Insert(map, url, queue) ==
    [u \in DOMAIN map \cup {url} |-> IF u = url THEN queue ELSE map[u]]

\* mutant of Remove: the entry stays, without its messages
RemoveMessagesOnly(map, url) ==
    [u \in DOMAIN map |-> IF u = url THEN [map[u] EXCEPT !.messages = <<>>] ELSE map[u]]

\* DashMap::remove
Remove(map, url) == [u \in DOMAIN map \ {url} |-> map[u]]

WithMessages(map, url, msgs) == [map EXCEPT ![url].messages = msgs]

StoredIds(map) == UNION { Ids(map[u].messages) : u \in DOMAIN map }

MessageById(map, i) ==
    LET u == CHOOSE v \in DOMAIN map : i \in Ids(map[v].messages)
    IN  map[u].messages[CHOOSE x \in 1..Len(map[u].messages) : map[u].messages[x].id = i]

\* the record of removed messages after a step of op that turns map into next
Removed(record, map, next, op) ==
    [ i \in DOMAIN record \cup (StoredIds(map) \ StoredIds(next)) |->
        IF i \in DOMAIN record THEN record[i]
        ELSE [op |-> op, receipt_handle |-> MessageById(map, i).receipt_handle] ]

\* the ledger keeps entries of stored messages only
Prune(led, map) == [i \in DOMAIN led \cap StoredIds(map) |-> led[i]]

NewQueue(name, attributes, now) ==
    [ name |-> name,
      url |-> QueueUrl(name),
      messages |-> <<>>,
      attributes |-> attributes,
      created_timestamp |-> now ]

\* mutant of AttributesDiffer: the comparison is skipped
AttributesNeverDiffer(existing, requested) == FALSE

AttributesDiffer(existing, requested) == existing # requested

\* --------------------------------------------------------------- responses
Response(op, by, url, result) ==
    [ op |-> op, by |-> by, queue_url |-> url, result |-> result,
      receipt_handle |-> None, messages |-> <<>>, now |-> clock,
      max |-> 0, attributes |-> [VisibilityTimeout |-> <<>>], urls |-> {},
      wait_time |-> 0, start_time |-> 0, resumed |-> FALSE,
      visibility_timeout |-> NoU32 ]

\* mutant of QueueMissing: the missing queue is answered as an empty success
QueueMissingEmptyOk(by, url) == Response("ReceiveMessage", by, url, "Ok")

\* receive_message, line 341: None => return Err(SqsError::QueueDoesNotExist)
QueueMissing(by, url) == Response("ReceiveMessage", by, url, "QueueDoesNotExist")

IdleReceiver == [ pc |-> "idle", queue_url |-> <<>>, max_number_of_messages |-> 0,
                  visibility_timeout |-> NoU32, wait_time_seconds |-> NoU32,
                  start_time |-> 0 ]

IdleCreator == [ pc |-> "idle", queue_name |-> <<>>,
                 attributes |-> [VisibilityTimeout |-> <<>>] ]

Init ==
    /\ queues = [u \in {} |-> 0]
    /\ clock = 0
    /\ nextId = 1
    /\ nextHandle = 1
    /\ recv = [r \in Receivers |-> IdleReceiver]
    /\ crt = [c \in Creators |-> IdleCreator]
    /\ lastOp = Response("Init", "", <<>>, "Ok")
    /\ ledger = [i \in {} |-> 0]
    /\ gone = [i \in {} |-> 0]



\* ------------------------------------------------------------------ actions
\* the wall clock advances
Tick ==
    /\ clock < MaxTime
    /\ clock' = clock + 1
    /\ lastOp' = [Response("Tick", "", <<>>, "Ok") EXCEPT !.now = clock + 1]
    /\ UNCHANGED <<queues, nextId, nextHandle, recv, crt, ledger, gone>>

\* create_queue, lines 31-42: the lookup, and both returns it can take
CreateQueueLookup(c, queue_name, attributes) ==
    LET queue_url == QueueUrl(queue_name)
    IN  /\ crt[c].pc = "idle"
        /\ IF Present(queue_url)
           THEN /\ lastOp' = [Response("CreateQueue", c, queue_url,
                                       IF AttributesDiffer(queues[queue_url].attributes, attributes)
                                       THEN "QueueNameExists" ELSE "Ok")
                                EXCEPT !.attributes = attributes]
                /\ crt' = crt
           ELSE /\ lastOp' = [Response("CreateQueueLookup", c, queue_url, "Pending")
                                EXCEPT !.attributes = attributes]
                /\ crt' = [crt EXCEPT ![c] = [pc |-> "insert", queue_name |-> queue_name,
                                              attributes |-> attributes]]
        /\ UNCHANGED <<queues, clock, nextId, nextHandle, recv, ledger, gone>>

\* create_queue, lines 44-53: the insert, which replaces whatever is under the key
CreateQueueInsert(c) ==
    LET queue_url == QueueUrl(crt[c].queue_name)
    IN  /\ crt[c].pc = "insert"
        /\ queues' = Insert(queues, queue_url,
                            NewQueue(crt[c].queue_name, crt[c].attributes, clock))
        /\ crt' = [crt EXCEPT ![c] = IdleCreator]
        /\ lastOp' = [Response("CreateQueue", c, queue_url, "Ok")
                        EXCEPT !.attributes = crt[c].attributes]
        /\ ledger' = Prune(ledger, queues')
        /\ gone' = Removed(gone, queues, queues', "CreateQueue")
        /\ UNCHANGED <<clock, nextId, nextHandle, recv>>

GetQueueUrl(queue_name) ==
    LET queue_url == QueueUrl(queue_name)
    IN  /\ lastOp' = Response("GetQueueUrl", "", queue_url,
                              IF Present(queue_url) THEN "Ok" ELSE "QueueDoesNotExist")
        /\ UNCHANGED <<queues, clock, nextId, nextHandle, recv, crt, ledger, gone>>

\* list_queues: the empty prefix stands for no prefix (every name starts with it)
ListQueues(prefix) ==
    /\ lastOp' = [Response("ListQueues", "", prefix, "Ok") EXCEPT
                    !.urls = { queues[u].url : u \in { v \in DOMAIN queues :
                                                        StartsWith(queues[v].name, prefix) } }]
    /\ UNCHANGED <<queues, clock, nextId, nextHandle, recv, crt, ledger, gone>>

\* get_queue_attributes: attribute_names is NoNames (absent) or a set of names
GetQueueAttributes(queue_url, attribute_names) ==
    /\ lastOp' = IF Present(queue_url)
                 THEN [Response("GetQueueAttributes", "", queue_url, "Ok") EXCEPT
                         !.attributes =
                            IF attribute_names = NoNames
                               \/ "VisibilityTimeout" \in attribute_names
                            THEN queues[queue_url].attributes
                            ELSE [VisibilityTimeout |-> <<>>]]
                 ELSE Response("GetQueueAttributes", "", queue_url, "QueueDoesNotExist")
    /\ UNCHANGED <<queues, clock, nextId, nextHandle, recv, crt, ledger, gone>>

DeleteQueue(queue_url) ==
    /\ IF Present(queue_url)
       THEN /\ queues' = Remove(queues, queue_url)
            /\ lastOp' = Response("DeleteQueue", "", queue_url, "Ok")
       ELSE /\ queues' = queues
            /\ lastOp' = Response("DeleteQueue", "", queue_url, "QueueDoesNotExist")
    /\ ledger' = Prune(ledger, queues')
    /\ gone' = Removed(gone, queues, queues', "DeleteQueue")
    /\ UNCHANGED <<clock, nextId, nextHandle, recv, crt>>

PurgeQueue(queue_url) ==
    /\ IF Present(queue_url)
       THEN /\ queues' = WithMessages(queues, queue_url, Cleared(queues[queue_url].messages))
            /\ lastOp' = Response("PurgeQueue", "", queue_url, "Ok")
       ELSE /\ queues' = queues
            /\ lastOp' = Response("PurgeQueue", "", queue_url, "QueueDoesNotExist")
    /\ ledger' = Prune(ledger, queues')
    /\ gone' = Removed(gone, queues, queues', "PurgeQueue")
    /\ UNCHANGED <<clock, nextId, nextHandle, recv, crt>>

SendMessage(queue_url, delay_seconds) ==
    IF Present(queue_url)
    THEN /\ nextId <= MaxSends
         /\ queues' = WithMessages(queues, queue_url,
                         PushBack(queues[queue_url].messages,
                                  NewMessage(nextId, clock, delay_seconds)))
         /\ nextId' = nextId + 1
         /\ ledger' = [i \in DOMAIN ledger \cup {nextId} |->
                         IF i = nextId
                         THEN [delay |-> UnwrapOr(delay_seconds, 0), leases |-> <<>>]
                         ELSE ledger[i]]
         /\ lastOp' = [Response("SendMessage", "", queue_url, "Ok") EXCEPT
                         !.messages = <<NewMessage(nextId, clock, delay_seconds)>>]
         /\ UNCHANGED <<clock, nextHandle, recv, crt, gone>>
    ELSE /\ lastOp' = Response("SendMessage", "", queue_url, "QueueDoesNotExist")
         /\ UNCHANGED <<queues, clock, nextId, nextHandle, recv, crt, ledger, gone>>

DeleteMessage(queue_url, receipt_handle) ==
    /\ IF Present(queue_url)
       THEN LET msgs == queues[queue_url].messages
            IN  /\ queues' = WithMessages(queues, queue_url, Retain(msgs, receipt_handle))
                /\ lastOp' = [Response("DeleteMessage", "", queue_url,
                                       IF MessageFound(msgs, receipt_handle)
                                       THEN "Ok" ELSE "MessageNotInflight")
                                EXCEPT !.receipt_handle = receipt_handle]
       ELSE /\ queues' = queues
            /\ lastOp' = [Response("DeleteMessage", "", queue_url, "QueueDoesNotExist")
                            EXCEPT !.receipt_handle = receipt_handle]
    /\ ledger' = Prune(ledger, queues')
    /\ gone' = Removed(gone, queues, queues', "DeleteMessage")
    /\ UNCHANGED <<clock, nextId, nextHandle, recv, crt>>

\* mutant of WaitOver: an off-by-one comparison
WaitOverStrictly(elapsed, wait_time) == elapsed > wait_time

\* the test that ends the loop of receive_message (line 344)
WaitOver(elapsed, wait_time) == elapsed >= wait_time

\* one pass of the loop of receive_message (lines 291-346) for receiver r, whose
\* call began at start_time.  Positions up to k are leased at the reading taken
\* at the top of the pass, later ones one second on.
Pass(r, request, start_time, k) ==
    LET queue_url == request.queue_url
        resumed == recv[r].pc = "sleep"
    IN  IF ~Present(queue_url)
        THEN /\ k = 0
             /\ lastOp' = [QueueMissing(r, queue_url) EXCEPT !.resumed = resumed]
             /\ recv' = [recv EXCEPT ![r] = IdleReceiver]
             /\ UNCHANGED <<queues, clock, nextId, nextHandle, crt, ledger, gone>>
        ELSE LET queue == queues[queue_url]
                 n == Len(queue.messages)
                 now == clock
                 after == IF k < n THEN clock + 1 ELSE clock
                 reads == [i \in 1..n |-> IF i <= k THEN clock ELSE clock + 1]
                 pass == ReceivePass(queue, request, now, reads, nextHandle)
                 got == pass.returned
                 elapsed == after - start_time
                 wait_time == UnwrapOr(request.wait_time_seconds, 0)
                 granted(i) == { j \in 1..Len(got) : got[j].id = i }
             IN  /\ k \in 0..n
                 /\ after <= MaxTime
                 /\ nextHandle + Len(got) - 1 <= MaxLeases
                 /\ queues' = WithMessages(queues, queue_url, pass.messages)
                 /\ clock' = after
                 /\ nextHandle' = nextHandle + Len(got)
                 /\ ledger' = [i \in DOMAIN ledger |->
                       IF granted(i) = {} THEN ledger[i]
                       ELSE LET h == got[CHOOSE j \in granted(i) : TRUE].receipt_handle
                            IN  [ledger[i] EXCEPT !.leases = Append(@,
                                   [handle |-> h, at |-> now, by |-> r,
                                    until |-> StoredUnder(pass.messages, h).visible_from])]]
                 /\ IF Len(got) > 0
                    THEN /\ lastOp' = [Response("ReceiveMessage", r, queue_url, "Ok") EXCEPT
                                         !.messages = got, !.now = now,
                                         !.max = request.max_number_of_messages,
                                         !.visibility_timeout = request.visibility_timeout,
                                         !.wait_time = wait_time, !.start_time = start_time,
                                         !.resumed = resumed]
                         /\ recv' = [recv EXCEPT ![r] = IdleReceiver]
                    ELSE IF WaitOver(elapsed, wait_time)
                    THEN /\ lastOp' = [Response("ReceiveMessage", r, queue_url, "Ok") EXCEPT
                                         !.now = now, !.max = request.max_number_of_messages,
                                         !.wait_time = wait_time, !.start_time = start_time,
                                         !.resumed = resumed]
                         /\ recv' = [recv EXCEPT ![r] = IdleReceiver]
                    ELSE /\ lastOp' = [Response("ReceiveMessageEmptyPass", r, queue_url, "Pending")
                                         EXCEPT !.now = now, !.max = request.max_number_of_messages,
                                                !.wait_time = wait_time, !.start_time = start_time,
                                         !.resumed = resumed]
                         /\ recv' = [recv EXCEPT ![r] =
                                [ pc |-> "sleep", queue_url |-> queue_url,
                                  max_number_of_messages |-> request.max_number_of_messages,
                                  visibility_timeout |-> request.visibility_timeout,
                                  wait_time_seconds |-> request.wait_time_seconds,
                                  start_time |-> start_time ]]
                 /\ UNCHANGED <<nextId, crt, gone>>

\* receive_message from its entry (lines 287-288) through its first pass; a
\* call begins only while the clock can still run to the end of its wait
ReceiveMessage(r, request, k) ==
    /\ recv[r].pc = "idle"
    /\ clock + UnwrapOr(request.wait_time_seconds, 0) <= MaxTime
    /\ Pass(r, request, clock, k)

\* receive_message wakes from tokio::time::sleep and runs its next pass
ReceiveMessageRetry(r, k) ==
    /\ recv[r].pc = "sleep"
    /\ Pass(r, recv[r], recv[r].start_time, k)

ReceiveRequests(urls, maxNumbers, timeouts, waits) ==
    [ queue_url : urls, max_number_of_messages : maxNumbers,
      visibility_timeout : timeouts, wait_time_seconds : waits ]

\* ----------------------------------------------------------- specifications
\* The message lifecycle on one queue: two receivers, sends with and without
\* delay, deletes by any handle, purge, queue deletion and re-creation.
LifeUrls == { QueueUrl(<<"a">>) }
LifeAttrs == { [VisibilityTimeout |-> <<"1">>] }
LifeRequests == ReceiveRequests(LifeUrls, {1, 2}, {NoU32, 0}, {NoU32})

Next ==
    \/ Tick
    \/ \E a \in LifeAttrs : CreateQueueLookup("c1", <<"a">>, a)
    \/ CreateQueueInsert("c1")
    \/ \E u \in LifeUrls : DeleteQueue(u)
    \/ \E u \in LifeUrls : PurgeQueue(u)
    \/ \E u \in LifeUrls, d \in Delays : SendMessage(u, d)
    \/ \E u \in LifeUrls, h \in 1..MaxLeases : DeleteMessage(u, h)
    \/ \E q \in LifeRequests, k \in 0..MaxSends : ReceiveMessage("r1", q, k)

Spec == Init /\ [][Next]_vars

\* Long polling on one queue: two receivers whose passes interleave with each
\* other and with sends, purges and the deletion and re-creation of the queue.
PollAttrs == { [VisibilityTimeout |-> <<>>] }
PollRequests == ReceiveRequests(LifeUrls, {1}, {1}, {NoU32, 1})

NextPoll ==
    \/ Tick
    \/ \E a \in PollAttrs : CreateQueueLookup("c1", <<"a">>, a)
    \/ CreateQueueInsert("c1")
    \/ \E u \in LifeUrls : DeleteQueue(u)
    \/ \E u \in LifeUrls : PurgeQueue(u)
    \/ \E u \in LifeUrls : SendMessage(u, NoU32)
    \/ \E r \in Receivers, q \in PollRequests, k \in 0..MaxSends : ReceiveMessage(r, q, k)
    \/ \E r \in Receivers, k \in 0..MaxSends : ReceiveMessageRetry(r, k)

SpecPoll == Init /\ [][NextPoll]_vars

\* The queue registry: two names, two concurrent create_queue calls, queue
\* deletion, and sends to see what a registry step does to the messages of
\* each queue.
StoreAttrs == { [VisibilityTimeout |-> <<>>], [VisibilityTimeout |-> <<"1">>] }

NextStore ==
    \/ Tick
    \/ \E c \in Creators, n \in QueueNames, a \in StoreAttrs : CreateQueueLookup(c, n, a)
    \/ \E c \in Creators : CreateQueueInsert(c)
    \/ \E u \in QueueUrls : DeleteQueue(u)
    \/ \E u \in QueueUrls : SendMessage(u, NoU32)

SpecStore == Init /\ [][NextStore]_vars

\* Long polling to its end: the clock keeps running and a sleeping call is
\* woken (tokio::time::sleep returns after 100 ms).  With no VisibilityTimeout
\* given a lease lasts 30 seconds, so each message is leased once.
LiveRequests == ReceiveRequests(LifeUrls, {1}, {NoU32}, {NoU32, 0, 1})

NextLive ==
    \/ Tick
    \/ \E a \in PollAttrs : CreateQueueLookup("c1", <<"a">>, a)
    \/ CreateQueueInsert("c1")
    \/ \E u \in LifeUrls : DeleteQueue(u)
    \/ \E u \in LifeUrls : SendMessage(u, NoU32)
    \/ \E q \in LiveRequests, k \in 0..MaxSends : ReceiveMessage("r1", q, k)
    \/ \E k \in 0..MaxSends : ReceiveMessageRetry("r1", k)

SpecLive ==
    /\ Init /\ [][NextLive]_vars
    /\ WF_vars(Tick)
    /\ \A r \in Receivers : WF_vars(\E k \in 0..MaxSends : ReceiveMessageRetry(r, k))

\* Visibility timeouts: the queue is made with no VisibilityTimeout, with a
\* number or with a text that is no number, and receives come with no
\* timeout, with 0 and with 1.
TimeoutRequests == ReceiveRequests(LifeUrls, {1}, {NoU32, 0, 1}, {NoU32})

NextTimeout ==
    \/ Tick
    \/ \E a \in AttrSets : CreateQueueLookup("c1", <<"a">>, a)
    \/ CreateQueueInsert("c1")
    \/ \E u \in LifeUrls : SendMessage(u, NoU32)
    \/ \E q \in TimeoutRequests, k \in 0..MaxSends : ReceiveMessage("r1", q, k)

SpecTimeout == Init /\ [][NextTimeout]_vars

\* Two queues side by side: each is created, sent to, received from, deleted
\* from and purged while the other holds messages.  The clock moves only while
\* a receive pass runs.
FrameRequests == ReceiveRequests(QueueUrls, {1}, {NoU32}, {NoU32})

NextFrame ==
    \/ \E n \in QueueNames, a \in PollAttrs : CreateQueueLookup("c1", n, a)
    \/ CreateQueueInsert("c1")
    \/ \E u \in QueueUrls : PurgeQueue(u)
    \/ \E u \in QueueUrls : SendMessage(u, NoU32)
    \/ \E u \in QueueUrls, h \in 1..MaxLeases : DeleteMessage(u, h)
    \/ \E q \in FrameRequests, k \in 0..MaxSends : ReceiveMessage("r1", q, k)

SpecFrame == Init /\ [][NextFrame]_vars

\* Receives that ask for at most 0 messages next to ones that ask for 1, with
\* and without a wait, on a queue that is listed while it is stored.
RangeRequests == ReceiveRequests(LifeUrls, {0, 1}, {NoU32}, {NoU32, 1})

NextRange ==
    \/ Tick
    \/ \E a \in LifeAttrs : CreateQueueLookup("c1", <<"a">>, a)
    \/ CreateQueueInsert("c1")
    \/ \E p \in Prefixes : ListQueues(p)
    \/ \E u \in LifeUrls : SendMessage(u, NoU32)
    \/ \E q \in RangeRequests, k \in 0..MaxSends : ReceiveMessage("r1", q, k)
    \/ \E k \in 0..MaxSends : ReceiveMessageRetry("r1", k)

SpecRange == Init /\ [][NextRange]_vars

\* Every operation, on a queue that can exist and on one that never does: one
\* creator makes and re-makes queue "a" with either attribute set, and every
\* handler is called for "a" and for "ab".
FailRequests == ReceiveRequests(QueueUrls, {1}, {NoU32}, {NoU32})

NextFail ==
    \/ Tick
    \/ \E a \in StoreAttrs : CreateQueueLookup("c1", <<"a">>, a)
    \/ CreateQueueInsert("c1")
    \/ \E n \in QueueNames : GetQueueUrl(n)
    \/ \E u \in QueueUrls, names \in AttributeNames : GetQueueAttributes(u, names)
    \/ \E u \in QueueUrls : DeleteQueue(u)
    \/ \E u \in QueueUrls : PurgeQueue(u)
    \/ \E u \in QueueUrls : SendMessage(u, NoU32)
    \/ \E u \in QueueUrls, h \in 1..MaxLeases : DeleteMessage(u, h)
    \/ \E q \in FailRequests, k \in 0..MaxSends : ReceiveMessage("r1", q, k)

SpecFail == Init /\ [][NextFail]_vars

\* ------------------------------------------------------------- properties
Last(seq) == seq[Len(seq)]

ReturnedIds(response) == Ids(response.messages)

IsReceivePass(response) ==
    response.op \in {"ReceiveMessage", "ReceiveMessageEmptyPass"}

LeaseHandles(i) == { ledger[i].leases[a].handle : a \in 1..Len(ledger[i].leases) }

\* C1: two leases of one message never overlap: a receive pass hands out a
\* message only at or after the visible_from every earlier lease of it ran to;
\* the handle a stored message holds is the one of its latest lease, and no two
\* stored messages hold the same handle.
C1_LeasesDisjoint ==
    /\ \A i \in DOMAIN ledger : \A a, b \in 1..Len(ledger[i].leases) :
          a < b => ledger[i].leases[b].at >= ledger[i].leases[a].until
    /\ \A u \in DOMAIN queues : \A x, y \in 1..Len(queues[u].messages) :
          LET m == queues[u].messages[x]
          IN  m.receipt_handle # None =>
                /\ ledger[m.id].leases # <<>>
                /\ Last(ledger[m.id].leases).handle = m.receipt_handle
                /\ (x # y => queues[u].messages[y].receipt_handle # m.receipt_handle)

\* C1 witness: a receiver ran a pass on a queue while another receiver's lease
\* of a message there was still running, and was not given that message.
C1_Witness ==
    /\ IsReceivePass(lastOp)
    /\ Present(lastOp.queue_url)
    /\ \E x \in 1..Len(queues[lastOp.queue_url].messages) :
          LET m == queues[lastOp.queue_url].messages[x]
          IN  /\ m.receipt_handle # None
              /\ lastOp.now < m.visible_from
              /\ Last(ledger[m.id].leases).by # lastOp.by
              /\ m.id \notin ReturnedIds(lastOp)

\* C2: a delete_message with the handle a stored message holds answers Ok and
\* leaves the queue as it was less exactly that message; no later receive
\* returns the id of an acknowledged message and no such message is stored.
C2_DeleteAcknowledges ==
    [][ /\ \A u \in DOMAIN queues : \A x \in 1..Len(queues[u].messages) :
              LET m == queues[u].messages[x]
              IN  ( /\ m.receipt_handle # None
                    /\ lastOp'.op = "DeleteMessage"
                    /\ lastOp'.queue_url = u
                    /\ lastOp'.receipt_handle = m.receipt_handle )
                  => /\ lastOp'.result = "Ok"
                     /\ queues' = [queues EXCEPT ![u].messages =
                                      SelectSeq(@, LAMBDA k : k.id # m.id)]
        /\ \A i \in DOMAIN gone' :
              gone'[i].op = "DeleteMessage" =>
                /\ i \notin StoredIds(queues')
                /\ (lastOp'.op = "ReceiveMessage" => i \notin ReturnedIds(lastOp'))
      ]_vars

\* C2 witness: after a message was acknowledged, a receive on a queue that
\* still holds another message returns that other message.
C2_Witness ==
    /\ \E i \in DOMAIN gone : gone[i].op = "DeleteMessage"
    /\ lastOp.op = "ReceiveMessage"
    /\ lastOp.messages # <<>>

\* C3: after a receive pass that had room left (it returned fewer than
\* max_number_of_messages), every stored message of the queue that was leased
\* before and whose visible_from is not after the pass's reading was returned by
\* the pass; each returned message carries the handle of its latest lease, which
\* differs from the handle of each earlier lease of it.
C3_ExpiredLeaseRedelivered ==
    (lastOp.op = "ReceiveMessage" /\ lastOp.result = "Ok") =>
      /\ Len(lastOp.messages) < lastOp.max =>
           \A x \in 1..Len(queues[lastOp.queue_url].messages) :
              LET m == queues[lastOp.queue_url].messages[x]
              IN  (ledger[m.id].leases # <<>> /\ m.visible_from <= lastOp.now)
                  => m.id \in ReturnedIds(lastOp)
      /\ \A j \in 1..Len(lastOp.messages) :
           LET leases == ledger[lastOp.messages[j].id].leases
           IN  /\ Last(leases).handle = lastOp.messages[j].receipt_handle
               /\ \A a \in 1..(Len(leases) - 1) :
                     leases[a].handle # lastOp.messages[j].receipt_handle

\* C3 witness: a receive returned a message that had been leased before.
C3_Witness ==
    /\ lastOp.op = "ReceiveMessage"
    /\ \E j \in 1..Len(lastOp.messages) :
          /\ Len(ledger[lastOp.messages[j].id].leases) >= 2
          /\ ledger[lastOp.messages[j].id].leases[1].until > ledger[lastOp.messages[j].id].leases[1].at

\* C4: the receive_count of each stored message is the number of times a
\* receive returned it, and a response reports that number too.
C4_ReceiveCountCountsDeliveries ==
    /\ \A u \in DOMAIN queues : \A x \in 1..Len(queues[u].messages) :
          queues[u].messages[x].receive_count
            = Len(ledger[queues[u].messages[x].id].leases)
    /\ lastOp.op = "ReceiveMessage" =>
          \A j \in 1..Len(lastOp.messages) :
             lastOp.messages[j].receive_count
               = Len(ledger[lastOp.messages[j].id].leases)

\* C5: a delete_message on a stored queue with a handle that none of its
\* messages holds answers MessageNotInflight and changes no queue.
C5_StaleHandleRejected ==
    [][ \A u \in DOMAIN queues :
          ( /\ lastOp'.op = "DeleteMessage"
            /\ lastOp'.queue_url = u
            /\ lastOp'.receipt_handle \notin Handles(queues[u].messages) )
          => /\ lastOp'.result = "MessageNotInflight"
             /\ queues' = queues
      ]_vars

\* C5 witness: a delete_message was refused for a handle that an earlier lease
\* of a still stored message had carried (superseded, or cleared on expiry).
C5_Witness ==
    /\ lastOp.op = "DeleteMessage"
    /\ lastOp.result = "MessageNotInflight"
    /\ \E i \in DOMAIN ledger : lastOp.receipt_handle \in LeaseHandles(i)

\* C6: a message leaves its queue only in a successful delete_message,
\* purge_queue or delete_queue on that queue.
C6_OnlyAckPurgeDeleteQueueRemove ==
    [][ \A u \in DOMAIN queues : \A i \in Ids(queues[u].messages) :
          (u \notin DOMAIN queues' \/ i \notin Ids(queues'[u].messages))
          => /\ lastOp'.op \in {"DeleteMessage", "PurgeQueue", "DeleteQueue"}
             /\ lastOp'.queue_url = u
             /\ lastOp'.result = "Ok"
      ]_vars

MessageVisible(m) == m.receipt_handle = None /\ clock >= m.visible_from

MessageLeased(m) == m.receipt_handle # None /\ clock < m.visible_from

\* C7 as stated: every stored message is visible or leased, and not both.
C7_VisibleXorLeased ==
    \A u \in DOMAIN queues : \A x \in 1..Len(queues[u].messages) :
       MessageVisible(queues[u].messages[x]) # MessageLeased(queues[u].messages[x])

\* C7 amended: no stored message is both visible and leased; one that is
\* neither is either without a handle, never leased, and still within the
\* delay it was sent with, or holds the handle of its latest lease, which has
\* run out (visible_from is where that lease ran to).
C7_NeitherOnlyDelayedOrExpired ==
    \A u \in DOMAIN queues : \A x \in 1..Len(queues[u].messages) :
       LET m == queues[u].messages[x]
           leases == ledger[m.id].leases
       IN  /\ ~(MessageVisible(m) /\ MessageLeased(m))
           /\ (~MessageVisible(m) /\ ~MessageLeased(m)) =>
                \/ /\ m.receipt_handle = None
                   /\ leases = <<>>
                   /\ ledger[m.id].delay > 0
                   /\ m.visible_from = m.sent_timestamp + ledger[m.id].delay
                \/ /\ m.receipt_handle # None
                   /\ leases # <<>>
                   /\ Last(leases).handle = m.receipt_handle
                   /\ Last(leases).until = m.visible_from
                   /\ clock >= m.visible_from

\* C7 witness: a stored message whose lease has run out still holds its handle.
C7_Witness ==
    \E u \in DOMAIN queues : \E x \in 1..Len(queues[u].messages) :
       /\ queues[u].messages[x].receipt_handle # None
       /\ clock >= queues[u].messages[x].visible_from

\* C8: a receive returns a message only at or after its send time plus its
\* delay; and after a pass that had room left, every stored message of the
\* queue that no receive has returned yet is still within its delay.
C8_DelayRespected ==
    IsReceivePass(lastOp) /\ lastOp.result # "QueueDoesNotExist" =>
      /\ \A j \in 1..Len(lastOp.messages) :
            lastOp.now >= lastOp.messages[j].sent_timestamp
                            + ledger[lastOp.messages[j].id].delay
      /\ Len(lastOp.messages) < lastOp.max =>
            \A x \in 1..Len(queues[lastOp.queue_url].messages) :
               LET m == queues[lastOp.queue_url].messages[x]
               IN  ledger[m.id].leases = <<>> =>
                     lastOp.now < m.sent_timestamp + ledger[m.id].delay

\* C8 witness: a receive returned, for the first time, a message that was sent
\* with a delay, while an undelayed message was returned at its send time.
C8_Witness ==
    /\ lastOp.op = "ReceiveMessage"
    /\ \E j \in 1..Len(lastOp.messages) :
          /\ ledger[lastOp.messages[j].id].delay > 0
          /\ Len(ledger[lastOp.messages[j].id].leases) = 1

\* C9: a purge_queue on a stored queue answers Ok and changes nothing but that
\* queue's messages, which become empty; a receive on a queue without messages
\* returns none, a delete_message on it is refused, and only a send_message
\* gives it a message again.
C9_PurgeEmpties ==
    [][ \A u \in DOMAIN queues :
          /\ (lastOp'.op = "PurgeQueue" /\ lastOp'.queue_url = u)
             => /\ lastOp'.result = "Ok"
                /\ queues' = [queues EXCEPT ![u].messages = <<>>]
          /\ (queues[u].messages = <<>> /\ IsReceivePass(lastOp') /\ lastOp'.queue_url = u)
             => /\ lastOp'.messages = <<>>
                /\ queues' = queues
          /\ (queues[u].messages = <<>> /\ lastOp'.op = "DeleteMessage" /\ lastOp'.queue_url = u)
             => /\ lastOp'.result = "MessageNotInflight"
                /\ queues' = queues
          /\ (queues[u].messages = <<>> /\ u \in DOMAIN queues' /\ queues'[u].messages # <<>>)
             => lastOp'.op = "SendMessage"
      ]_vars

\* C9 witness: a purge has just removed a message that a receiver held.
C9_Witness ==
    /\ lastOp.op = "PurgeQueue"
    /\ lastOp.result = "Ok"
    /\ \E i \in DOMAIN gone : gone[i].op = "PurgeQueue" /\ gone[i].receipt_handle # None

\* C10: a create_queue returns from its lookup exactly when the name is in the
\* store; it then changes no queue, and answers Ok when the stored attributes
\* equal the requested ones and QueueNameExists when they differ.
C10_CreateIdempotentOrConflict ==
    [][ \A c \in Creators :
          /\ (crt[c].pc = "idle" /\ lastOp'.op = "CreateQueue" /\ lastOp'.by = c)
             => /\ Present(lastOp'.queue_url)
                /\ queues' = queues
                /\ lastOp'.result =
                     IF queues[lastOp'.queue_url].attributes = lastOp'.attributes
                     THEN "Ok" ELSE "QueueNameExists"
          /\ (lastOp'.op = "CreateQueueLookup" /\ lastOp'.by = c)
             => ~Present(lastOp'.queue_url)
      ]_vars

\* C10 witness: a create_queue with other attributes was refused for a queue
\* that holds a message.
C10_Witness ==
    /\ lastOp.op = "CreateQueue"
    /\ lastOp.result = "QueueNameExists"
    /\ Present(lastOp.queue_url)
    /\ queues[lastOp.queue_url].messages # <<>>
    /\ queues[lastOp.queue_url].created_timestamp < clock

\* C11: a receive pass on a stored queue (max_number_of_messages at least 1)
\* that finds a message whose visible_from has come returns messages and ends
\* the call; a pass that finds none returns none, ends the call with an empty
\* Ok exactly when the time since the call began has reached the wait time,
\* and sleeps otherwise (never when the wait time is 0 or absent); and every
\* sleeping call ends.
C11_ReceiveReturnsOrWaits ==
    /\ [][ (IsReceivePass(lastOp') /\ lastOp'.queue_url \in DOMAIN queues) =>
            LET msgs == queues[lastOp'.queue_url].messages
                seen == \E x \in 1..Len(msgs) : lastOp'.now >= msgs[x].visible_from
                elapsed == clock' - lastOp'.start_time
                r == lastOp'.by
            IN  /\ seen => /\ lastOp'.op = "ReceiveMessage"
                           /\ lastOp'.result = "Ok"
                           /\ lastOp'.messages # <<>>
                           /\ recv'[r].pc = "idle"
                /\ ~seen => /\ lastOp'.messages = <<>>
                            /\ IF elapsed >= lastOp'.wait_time
                               THEN /\ lastOp'.op = "ReceiveMessage"
                                    /\ lastOp'.result = "Ok"
                                    /\ recv'[r].pc = "idle"
                               ELSE /\ lastOp'.op = "ReceiveMessageEmptyPass"
                                    /\ lastOp'.wait_time >= 1
                                    /\ recv'[r].pc = "sleep"
          ]_vars
    /\ \A r \in Receivers : (recv[r].pc = "sleep") ~> (recv[r].pc = "idle")

\* C11 witness: a call that waited returned an empty result once its wait time
\* had passed.
C11_Witness ==
    /\ lastOp.op = "ReceiveMessage"
    /\ lastOp.result = "Ok"
    /\ lastOp.messages = <<>>
    /\ lastOp.wait_time >= 1
    /\ clock - lastOp.start_time >= lastOp.wait_time

\* C12: when a sleeping receive_message call runs its next pass and its queue
\* is not in the store, the call ends with QueueDoesNotExist and no queue
\* changes; a call only sleeps on a queue that was stored at its last pass.
C12_DeletedQueueFailsNextPass ==
    [][ \A r \in Receivers :
          /\ ( /\ recv[r].pc = "sleep"
               /\ IsReceivePass(lastOp') /\ lastOp'.by = r
               /\ recv[r].queue_url \notin DOMAIN queues )
             => /\ lastOp'.op = "ReceiveMessage"
                /\ lastOp'.result = "QueueDoesNotExist"
                /\ lastOp'.queue_url = recv[r].queue_url
                /\ recv'[r].pc = "idle"
                /\ queues' = queues
          /\ (recv'[r].pc = "sleep" /\ IsReceivePass(lastOp') /\ lastOp'.by = r)
             => recv'[r].queue_url \in DOMAIN queues'
      ]_vars

\* C12 witness: a call that had slept failed with QueueDoesNotExist.
C12_Witness ==
    /\ lastOp.op = "ReceiveMessage"
    /\ lastOp.result = "QueueDoesNotExist"
    /\ lastOp.resumed

Failures == {"QueueDoesNotExist", "QueueNameExists", "MessageNotInflight"}

\* C13: a step that answers QueueDoesNotExist, QueueNameExists or
\* MessageNotInflight changes no queue and no message; nor does a receive pass
\* that returns no message, so a receive_message call that fails has changed
\* nothing in any of its passes.
C13_FailureLeavesStore ==
    [][ /\ lastOp'.result \in Failures => queues' = queues
        /\ (IsReceivePass(lastOp') /\ lastOp'.messages = <<>>) => queues' = queues
      ]_vars

\* C13 witness: a delete_message was refused on a queue that holds a message
\* under another handle.
C13_Witness ==
    /\ lastOp.op = "DeleteMessage"
    /\ lastOp.result = "MessageNotInflight"
    /\ Handles(queues[lastOp.queue_url].messages) # {}

Min(a, b) == IF a <= b THEN a ELSE b

IdsInOrder(msgs) == [j \in 1..Len(msgs) |-> msgs[j].id]

\* C14: a receive pass on a stored queue returns, in queue order, the first
\* min(max_number_of_messages, number of visible messages) messages that are
\* visible at the pass's reading of the clock (their visible_from has come;
\* the handle of a run-out lease is cleared first), each as it was stored but
\* for the handle; a message it does not return it leaves as it was, but for
\* the cleared handle of a run-out lease.
C14_FirstVisibleInOrder ==
    [][ (IsReceivePass(lastOp') /\ lastOp'.queue_url \in DOMAIN queues) =>
          LET msgs == queues[lastOp'.queue_url].messages
              now == lastOp'.now
              visible == [j \in 1..Len(msgs) |-> now >= msgs[j].visible_from]
              before(j) == Cardinality({x \in 1..(j - 1) : visible[x]})
              count == Cardinality({x \in 1..Len(msgs) : visible[x]})
              taken(j) == visible[j] /\ before(j) < lastOp'.max
              after == queues'[lastOp'.queue_url].messages
          IN  /\ Len(lastOp'.messages) = Min(lastOp'.max, count)
              /\ IdsInOrder(after) = IdsInOrder(msgs)
              /\ \A j \in 1..Len(msgs) :
                    IF taken(j)
                    THEN /\ lastOp'.messages[before(j) + 1].id = msgs[j].id
                         /\ lastOp'.messages[before(j) + 1].visible_from = msgs[j].visible_from
                         /\ after[j].receipt_handle = lastOp'.messages[before(j) + 1].receipt_handle
                         /\ after[j].receipt_handle # None
                    ELSE after[j] = IF visible[j]
                                    THEN [msgs[j] EXCEPT !.receipt_handle = None]
                                    ELSE msgs[j]
      ]_vars

\* C14 witness: a receive limited to one message returned the first of the
\* visible messages and left a later visible one in the queue.
C14_Witness ==
    /\ lastOp.op = "ReceiveMessage"
    /\ lastOp.max = 1
    /\ Len(lastOp.messages) = 1
    /\ Present(lastOp.queue_url)
    /\ \E x, y \in 1..Len(queues[lastOp.queue_url].messages) :
          /\ x < y
          /\ queues[lastOp.queue_url].messages[x].id = lastOp.messages[1].id
          /\ queues[lastOp.queue_url].messages[y].receipt_handle = None
          /\ queues[lastOp.queue_url].messages[y].visible_from <= lastOp.now

\* C15: for a stored message whose lease under handle t has run out, each of
\* delete_message(t) and a receive pass is one step, and whichever runs first
\* decides: the delete answers Ok and removes the message, which no receive
\* returns from then on; or the pass takes handle t off the message and keeps
\* it stored (returning it, if it does, under a handle other than t), and from
\* then on a delete_message with a handle the message held before is refused
\* and removes nothing.
C15_DeleteRacesReceive ==
    [][ /\ \A u \in DOMAIN queues : \A x \in 1..Len(queues[u].messages) :
              LET m == queues[u].messages[x]
                  t == m.receipt_handle
              IN  (t # None /\ clock >= m.visible_from) =>
                    /\ ( /\ lastOp'.op = "DeleteMessage"
                         /\ lastOp'.queue_url = u
                         /\ lastOp'.receipt_handle = t )
                       => /\ lastOp'.result = "Ok"
                          /\ m.id \notin StoredIds(queues')
                          /\ m.id \in DOMAIN gone'
                          /\ gone'[m.id].op = "DeleteMessage"
                    /\ (IsReceivePass(lastOp') /\ lastOp'.queue_url = u)
                       => /\ m.id \in Ids(queues'[u].messages)
                          /\ t \notin Handles(queues'[u].messages)
                          /\ \A j \in 1..Len(lastOp'.messages) :
                                lastOp'.messages[j].id = m.id =>
                                  /\ lastOp'.messages[j].receipt_handle # t
                                  /\ lastOp'.messages[j].receipt_handle
                                       = MessageById(queues', m.id).receipt_handle
        /\ \A i \in DOMAIN ledger :
              ( /\ lastOp'.op = "DeleteMessage"
                /\ lastOp'.receipt_handle \in LeaseHandles(i)
                /\ lastOp'.receipt_handle # MessageById(queues, i).receipt_handle )
              => /\ lastOp'.result # "Ok"
                 /\ queues' = queues
        /\ \A i \in DOMAIN gone' :
              gone'[i].op = "DeleteMessage" =>
                /\ i \notin StoredIds(queues')
                /\ i \notin ReturnedIds(lastOp')
      ]_vars

\* C15 witness: a delete_message with the handle of a run-out lease was refused
\* after a receive had leased the message again under another handle, and the
\* message is still stored.
C15_Witness ==
    /\ lastOp.op = "DeleteMessage"
    /\ lastOp.result = "MessageNotInflight"
    /\ \E i \in DOMAIN ledger :
          /\ Len(ledger[i].leases) >= 2
          /\ ledger[i].leases[1].handle = lastOp.receipt_handle
          /\ MessageById(queues, i).receipt_handle = Last(ledger[i].leases).handle

\* C16: a create_queue never answers Ok for a name whose stored queue has
\* other attributes than the requested ones; so of two overlapping calls for
\* one name with different attributes, the second to finish is refused.
C16_AtMostOneCreateSucceeds ==
    [][ ( /\ lastOp'.op = "CreateQueue"
          /\ lastOp'.result = "Ok"
          /\ lastOp'.queue_url \in DOMAIN queues )
        => queues[lastOp'.queue_url].attributes = lastOp'.attributes
      ]_vars

\* C17: a step of create_queue removes no stored message.
C17_CreateKeepsMessages ==
    [][ lastOp'.op = "CreateQueue" => StoredIds(queues) \subseteq StoredIds(queues')
      ]_vars

IsNumber(text) == text # <<>> /\ \A x \in 1..Len(text) : IsDigit(text[x])

\* the timeout a receive call is to lease under: the call's own when it gives
\* one, else the queue's VisibilityTimeout when that is a number, else 30
TimeoutOf(response, attributes) ==
    IF response.visibility_timeout # NoU32 THEN response.visibility_timeout
    ELSE IF IsNumber(attributes.VisibilityTimeout)
         THEN DecimalValue(attributes.VisibilityTimeout)
         ELSE 30

\* C18: each message a receive returns is stored with visible_from equal to
\* the time of its leasing (a clock reading taken during the pass, between the
\* pass's first reading and the clock at its end) plus the effective timeout;
\* and every lease of a message begins at or after the visible_from of each
\* earlier lease of it.
C18_VisibleFromIsNowPlusTimeout ==
    /\ (lastOp.op = "ReceiveMessage" /\ lastOp.messages # <<>>) =>
          \A j \in 1..Len(lastOp.messages) :
             LET m == MessageById(queues, lastOp.messages[j].id)
                 timeout == TimeoutOf(lastOp, queues[lastOp.queue_url].attributes)
             IN  /\ m.visible_from >= lastOp.now + timeout
                 /\ m.visible_from <= clock + timeout
                 /\ Last(ledger[m.id].leases).until = m.visible_from
    /\ \A i \in DOMAIN ledger : \A a, b \in 1..Len(ledger[i].leases) :
          a < b => /\ ledger[i].leases[b].at >= ledger[i].leases[a].until
                   /\ ledger[i].leases[b].handle # ledger[i].leases[a].handle

\* C18 witness: a call that gave no timeout leased a message of a queue whose
\* VisibilityTimeout is no number, for 30 seconds.
C18_Witness ==
    /\ lastOp.op = "ReceiveMessage"
    /\ lastOp.messages # <<>>
    /\ lastOp.visibility_timeout = NoU32
    /\ queues[lastOp.queue_url].attributes.VisibilityTimeout = <<"x">>
    /\ MessageById(queues, lastOp.messages[1].id).visible_from
         >= lastOp.now + DEFAULT_VISIBILITY_TIMEOUT

MessageOps == {"SendMessage", "ReceiveMessage", "ReceiveMessageEmptyPass",
               "DeleteMessage", "PurgeQueue"}

\* C19: a send_message that answers Ok leaves its queue as it was but for one
\* message added at the tail, which has an id no stored message has, no handle
\* and receive_count 0; and a step of send_message, receive_message,
\* delete_message or purge_queue changes no queue but the one it names, and
\* adds and removes no queue.
C19_SendAppendsAndFrame ==
    [][ /\ (lastOp'.op = "SendMessage" /\ lastOp'.result = "Ok") =>
              LET u == lastOp'.queue_url
                  m == lastOp'.messages[1]
              IN  /\ u \in DOMAIN queues
                  /\ queues' = [queues EXCEPT ![u].messages = queues[u].messages \o <<m>>]
                  /\ m.id \notin StoredIds(queues)
                  /\ m.id \notin DOMAIN gone
                  /\ m.receipt_handle = None
                  /\ m.receive_count = 0
        /\ lastOp'.op \in MessageOps =>
              /\ DOMAIN queues' = DOMAIN queues
              /\ \A v \in DOMAIN queues \ {lastOp'.queue_url} : queues'[v] = queues[v]
              /\ \A v \in DOMAIN queues :
                    /\ queues'[v].name = queues[v].name
                    /\ queues'[v].url = queues[v].url
                    /\ queues'[v].attributes = queues[v].attributes
                    /\ queues'[v].created_timestamp = queues[v].created_timestamp
      ]_vars

\* C19 witness: a send_message added a message behind a leased one while the
\* other queue was stored.
C19_Witness ==
    /\ lastOp.op = "SendMessage"
    /\ lastOp.result = "Ok"
    /\ Len(queues[lastOp.queue_url].messages) >= 2
    /\ queues[lastOp.queue_url].messages[1].receipt_handle # None
    /\ \E v \in DOMAIN queues : v # lastOp.queue_url

QueueOps == {"SendMessage", "ReceiveMessage", "ReceiveMessageEmptyPass",
             "DeleteMessage", "PurgeQueue", "GetQueueUrl", "GetQueueAttributes"}

\* C21: a delete_queue on a stored queue answers Ok and takes the queue with
\* all its messages out of the store, changing no other queue; on a queue not
\* in the store it answers QueueDoesNotExist and changes nothing.  While a
\* queue is not in the store, send_message, receive_message, delete_message,
\* purge_queue, get_queue_url and get_queue_attributes on it answer
\* QueueDoesNotExist; only a create_queue puts it into the store, and then it
\* holds no messages.
C21_DeleteQueueRemovesAll ==
    [][ /\ lastOp'.op = "DeleteQueue" =>
              LET u == lastOp'.queue_url
              IN  IF u \in DOMAIN queues
                  THEN /\ lastOp'.result = "Ok"
                       /\ DOMAIN queues' = DOMAIN queues \ {u}
                       /\ \A v \in DOMAIN queues' : queues'[v] = queues[v]
                       /\ Ids(queues[u].messages) \cap StoredIds(queues') = {}
                  ELSE /\ lastOp'.result = "QueueDoesNotExist"
                       /\ queues' = queues
        /\ (lastOp'.op \in QueueOps /\ lastOp'.queue_url \notin DOMAIN queues) =>
              /\ lastOp'.result = "QueueDoesNotExist"
              /\ lastOp'.messages = <<>>
              /\ queues' = queues
        /\ \A u \in DOMAIN queues' \ DOMAIN queues :
              /\ lastOp'.op = "CreateQueue"
              /\ lastOp'.result = "Ok"
              /\ lastOp'.queue_url = u
              /\ queues'[u].messages = <<>>
      ]_vars

\* C21 witness: after a delete_queue took a queue with a message out of the
\* store, a send_message to it was refused.
C21_Witness ==
    /\ lastOp.op = "SendMessage"
    /\ lastOp.result = "QueueDoesNotExist"
    /\ lastOp.queue_url = QueueUrl(<<"a">>)
    /\ \E i \in DOMAIN gone : gone[i].op = "DeleteQueue"

\* C22: a receive_message on a stored queue with max_number_of_messages 0 is
\* refused with InvalidParameterValue.
C22_ZeroMaxRejected ==
    ( /\ IsReceivePass(lastOp)
      /\ lastOp.result # "QueueDoesNotExist"
      /\ lastOp.max = 0 )
    => lastOp.result = "InvalidParameterValue"

=============================================================================
